---------------------------- MODULE Spec2Model ----------------------------
(***************************************************************************)
(* Model of the PermissionManager of authorization-practice.               *)
(*                                                                         *)
(* The constructor expands the RoleHierarchy table into a cache of role    *)
(* closures (computeRoleHierarchy, a recursion that shares one visited     *)
(* set) and the RoleBasedPermissions table into a cache of effective       *)
(* permissions (computePermissions).  The queries hasPermission,           *)
(* hasPermissions, hasAnyPermission, hasRole and getMaxRole read the two    *)
(* caches and the context.                                                 *)
(*                                                                         *)
(* Two specifications:                                                     *)
(*   SpecBuild  the constructor, one step per call, guard hit and return   *)
(*              of computeRoleHierarchy, over every small hierarchy        *)
(*   Spec       the queries, from the state the constructor leaves         *)
(***************************************************************************)
EXTENDS Naturals, Sequences, FiniteSets

VARIABLES
  RoleHierarchy,          \* config.ts: role -> direct parents (ordered entries)
  RoleBasedPermissions,   \* config.ts: role -> direct grants (ordered entries)
  context,                \* constructor parameter [roles, permissions]
  cachedRoleHierarchy,    \* Map role -> Set of inherited roles
  cachedRolePermissions,  \* Map role -> Set of permissions
  pc,                     \* "hierarchy", "permissions" or "built"
  idx,                    \* position of the running forEach in Object.keys(...)
  stack,                  \* call stack of computeRoleHierarchy, top last
  visited,                \* the visited set of the running top-level call
  expanded,               \* history: roles added to visited, in order, this call
  op,                     \* last query called
  ret                     \* its return value

vars == <<RoleHierarchy, RoleBasedPermissions, context, cachedRoleHierarchy,
          cachedRolePermissions, pc, idx, stack, visited, expanded, op, ret>>

buildVars == <<cachedRoleHierarchy, cachedRolePermissions, pc, idx, stack,
               visited, expanded>>

-----------------------------------------------------------------------------
(* Bounds *)

MaxParents == 2       \* longest parent list of a generated hierarchy
MaxHeldRoles == 3     \* longest context.roles
MaxExplicit == 1      \* longest context.permissions
MaxList == 2          \* longest argument of hasPermissions / hasAnyPermission

-----------------------------------------------------------------------------
(* Tables: a Record<string, string[]> is its entries in insertion order. *)

Range(s) == {s[i] : i \in 1..Len(s)}

Keys(table) == [i \in 1..Len(table) |-> table[i].key]

HasKey(table, k) == \E i \in 1..Len(table) : table[i].key = k

Get(table, k) == table[CHOOSE i \in 1..Len(table) : table[i].key = k].val

SeqsUpTo(S, n) == UNION {[1..k -> S] : k \in 0..n}

InjSeqsUpTo(S, n) ==
  {s \in SeqsUpTo(S, n) : \A i, j \in 1..Len(s) : i # j => s[i] # s[j]}

ShippedRoleHierarchy ==
  << [key |-> "super_admin",   val |-> <<"admin">>],
     [key |-> "admin",         val |-> <<"manager">>],
     [key |-> "manager",       val |-> <<"proof-reader", "editor", "sales_manager">>],
     [key |-> "sales_manager", val |-> <<"user">>],
     [key |-> "proof_reader",  val |-> <<"user">>],
     [key |-> "editor",        val |-> <<"user">>],
     [key |-> "premium_user",  val |-> <<"user">>],
     [key |-> "user",          val |-> << >>] >>

ShippedRoleBasedPermissions ==
  << [key |-> "super_admin",  val |-> << >>],
     [key |-> "admin",        val |-> <<"product:delete", "user:delete", "user:create">>],
     [key |-> "manager",      val |-> <<"product:create", "product:update">>],
     [key |-> "proof_reader", val |-> <<"product:update">>],
     [key |-> "editor",       val |-> <<"product:create", "product:update">>],
     [key |-> "premium_user", val |-> <<"product:review">>],
     [key |-> "user",         val |-> <<"product:read">>] >>

Shipped == [hierarchy |-> ShippedRoleHierarchy,
            permissions |-> ShippedRoleBasedPermissions]

(* Generated tables over three roles: each role is a key or not, and a key  *)
(* lists up to MaxParents distinct parents, in any order.                   *)
GenRoles == {"A", "B", "C"}

GenOrder == <<"A", "B", "C">>

IsPresent(e) == e.present

GenEntries(f) ==
  LET all == [i \in 1..Len(GenOrder) |->
                [key |-> GenOrder[i], val |-> f[GenOrder[i]].val,
                 present |-> f[GenOrder[i]].present]]
      kept == SelectSeq(all, IsPresent)
  IN [i \in 1..Len(kept) |-> [key |-> kept[i].key, val |-> kept[i].val]]

GenOptions(vals) ==
  {[present |-> FALSE, val |-> << >>]} \cup {[present |-> TRUE, val |-> v] : v \in vals}

GenHierarchies ==
  {GenEntries(f) : f \in [GenRoles -> GenOptions(InjSeqsUpTo(GenRoles, MaxParents))]}

(* Hierarchies with a repeated parent, which the generator above leaves out *)
RepeatedParentHierarchies ==
  { << [key |-> "A", val |-> <<"B", "B">>], [key |-> "B", val |-> <<"C">>] >>,
    << [key |-> "A", val |-> <<"A", "A">>] >> }

GenPermissionTables ==
  { << [key |-> "A", val |-> <<"product:delete">>],
       [key |-> "B", val |-> <<"product:update", "product:read">>],
       [key |-> "C", val |-> <<"product:read">>] >>,
    << [key |-> "A", val |-> << >>],
       [key |-> "C", val |-> <<"product:read", "product:read">>] >>,
    << [key |-> "B", val |-> <<"product:update">>] >> }

BuildConfigs ==
  {Shipped} \cup
  {[hierarchy |-> h, permissions |-> p] :
     h \in GenHierarchies \cup RepeatedParentHierarchies, p \in GenPermissionTables}

-----------------------------------------------------------------------------
(* computeRoleHierarchy *)

\* RoleHierarchy[role] || []
InheritedRoles(H, role) == IF HasKey(H, role) THEN Get(H, role) ELSE << >>

\* Mutant: the cycle guard never fires
VisitedHasNever(vis, role) == FALSE

\* visited.has(role)
VisitedHas(vis, role) == role \in vis

\* Mutant: the parent is added only after the guard let the call through
AddRoleUnlessVisited(result, inheritedRole) ==
  IF inheritedRole \in visited THEN result ELSE result \cup {inheritedRole}

\* result.add(inheritedRole), before the recursive call and whatever it returns
AddRole(result, inheritedRole) == result \cup {inheritedRole}

\* Mutant: the result of the recursive call is dropped
AddAllDropped(result, inheritedHierarchy) == result

\* inheritedHierarchy.forEach((r) => result.add(r))
AddAll(result, inheritedHierarchy) == result \cup inheritedHierarchy

RECURSIVE computeRoleHierarchy(_, _, _)
RECURSIVE forEachInherited(_, _, _, _, _)

\* The recursion as a function: its result, and the shared visited set after it
computeRoleHierarchy(H, role, vis) ==
  IF VisitedHas(vis, role)
  THEN [result |-> {}, visited |-> vis]
  ELSE forEachInherited(H, InheritedRoles(H, role), 1, {}, vis \cup {role})

forEachInherited(H, inheritedRoles, j, result, vis) ==
  IF j > Len(inheritedRoles)
  THEN [result |-> result, visited |-> vis]
  ELSE LET inheritedRole == inheritedRoles[j]
           sub == computeRoleHierarchy(H, inheritedRole, vis)
       IN forEachInherited(H, inheritedRoles, j + 1,
                           AddAll(AddRole(result, inheritedRole), sub.result),
                           sub.visited)

-----------------------------------------------------------------------------
(* computePermissions *)

\* RoleBasedPermissions[role]?.forEach((permission) => result.add(permission))
RECURSIVE AddGrants(_, _, _, _)
AddGrants(P, role, k, result) ==
  IF ~HasKey(P, role) \/ k > Len(Get(P, role))
  THEN result
  ELSE AddGrants(P, role, k + 1, result \cup {Get(P, role)[k]})

\* hierarchySet?.forEach((inheritedRole) => ...), over the set in any order
RECURSIVE AddInheritedGrants(_, _, _)
AddInheritedGrants(P, hierarchySet, result) ==
  IF hierarchySet = {}
  THEN result
  ELSE LET inheritedRole == CHOOSE r \in hierarchySet : TRUE
       IN AddInheritedGrants(P, hierarchySet \ {inheritedRole},
                             AddGrants(P, inheritedRole, 1, result))

\* Mutant: the cached closure is not consulted
HierarchySetIgnored(cache, role) == {}

\* this.cachedRoleHierarchy.get(role), a missing entry read as no roles
HierarchySetOf(cache, role) == IF role \in DOMAIN cache THEN cache[role] ELSE {}

computePermissions(P, cache, role, vis) ==
  IF VisitedHas(vis, role)
  THEN {}
  ELSE AddInheritedGrants(P, HierarchySetOf(cache, role), AddGrants(P, role, 1, {}))

-----------------------------------------------------------------------------
(* The constructor, step by step *)

EmptyMap == [r \in {} |-> {}]

MapSet(m, k, v) == [r \in DOMAIN m \cup {k} |-> IF r = k THEN v ELSE m[r]]

Top == stack[Len(stack)]

Pop == SubSeq(stack, 1, Len(stack) - 1)

InitBuild ==
  /\ \E cfg \in BuildConfigs :
       /\ RoleHierarchy = cfg.hierarchy
       /\ RoleBasedPermissions = cfg.permissions
  /\ context = [roles |-> << >>, permissions |-> << >>]
  /\ cachedRoleHierarchy = EmptyMap
  /\ cachedRolePermissions = EmptyMap
  /\ pc = "hierarchy"
  /\ idx = 1
  /\ stack = << >>
  /\ visited = {}
  /\ expanded = << >>
  /\ op = [name |-> "none", arg |-> "", list |-> << >>]
  /\ ret = [bool |-> FALSE, role |-> ""]

\* Object.keys(RoleHierarchy).forEach: the next top-level call, visited = new Set()
CallTopLevel ==
  /\ pc = "hierarchy"
  /\ stack = << >>
  /\ idx <= Len(RoleHierarchy)
  /\ LET role == Keys(RoleHierarchy)[idx]
     IN /\ ~VisitedHas({}, role)
        /\ visited' = {role}
        /\ expanded' = <<role>>
        /\ stack' = <<[role |-> role, j |-> 1, result |-> {}]>>
  /\ UNCHANGED <<RoleHierarchy, RoleBasedPermissions, context, cachedRoleHierarchy,
                 cachedRolePermissions, pc, idx, op, ret>>

\* result.add(inheritedRole); the recursive call finds the role unvisited
Expand ==
  /\ pc = "hierarchy"
  /\ stack # << >>
  /\ Top.j <= Len(InheritedRoles(RoleHierarchy, Top.role))
  /\ LET inheritedRole == InheritedRoles(RoleHierarchy, Top.role)[Top.j]
     IN /\ ~VisitedHas(visited, inheritedRole)
        /\ visited' = visited \cup {inheritedRole}
        /\ expanded' = Append(expanded, inheritedRole)
        /\ stack' = Append([stack EXCEPT ![Len(stack)].result = AddRole(@, inheritedRole)],
                           [role |-> inheritedRole, j |-> 1, result |-> {}])
  /\ UNCHANGED <<RoleHierarchy, RoleBasedPermissions, context, cachedRoleHierarchy,
                 cachedRolePermissions, pc, idx, op, ret>>

\* result.add(inheritedRole); the recursive call returns the empty set at once
CycleBreak ==
  /\ pc = "hierarchy"
  /\ stack # << >>
  /\ Top.j <= Len(InheritedRoles(RoleHierarchy, Top.role))
  /\ LET inheritedRole == InheritedRoles(RoleHierarchy, Top.role)[Top.j]
     IN /\ VisitedHas(visited, inheritedRole)
        /\ stack' = [stack EXCEPT ![Len(stack)].result = AddAll(AddRole(@, inheritedRole), {}),
                                  ![Len(stack)].j = @ + 1]
  /\ UNCHANGED <<RoleHierarchy, RoleBasedPermissions, context, cachedRoleHierarchy,
                 cachedRolePermissions, pc, idx, visited, expanded, op, ret>>

\* return result, to the forEach of the calling frame
ReturnToCaller ==
  /\ pc = "hierarchy"
  /\ Len(stack) >= 2
  /\ Top.j > Len(InheritedRoles(RoleHierarchy, Top.role))
  /\ stack' = [Pop EXCEPT ![Len(stack) - 1].result = AddAll(@, Top.result),
                          ![Len(stack) - 1].j = @ + 1]
  /\ UNCHANGED <<RoleHierarchy, RoleBasedPermissions, context, cachedRoleHierarchy,
                 cachedRolePermissions, pc, idx, visited, expanded, op, ret>>

\* return result, to the constructor: this.cachedRoleHierarchy.set(role, ...)
CacheHierarchy ==
  /\ pc = "hierarchy"
  /\ Len(stack) = 1
  /\ Top.j > Len(InheritedRoles(RoleHierarchy, Top.role))
  /\ cachedRoleHierarchy' = MapSet(cachedRoleHierarchy, Top.role, Top.result)
  /\ stack' = << >>
  /\ idx' = idx + 1
  /\ UNCHANGED <<RoleHierarchy, RoleBasedPermissions, context, cachedRolePermissions,
                 pc, visited, expanded, op, ret>>

\* the first forEach is over; the second starts
HierarchyDone ==
  /\ pc = "hierarchy"
  /\ stack = << >>
  /\ idx > Len(RoleHierarchy)
  /\ pc' = "permissions"
  /\ idx' = 1
  /\ UNCHANGED <<RoleHierarchy, RoleBasedPermissions, context, cachedRoleHierarchy,
                 cachedRolePermissions, stack, visited, expanded, op, ret>>

\* this.cachedRolePermissions.set(role, this.computePermissions(role))
CachePermissions ==
  /\ pc = "permissions"
  /\ idx <= Len(RoleBasedPermissions)
  /\ LET role == Keys(RoleBasedPermissions)[idx]
     IN cachedRolePermissions' =
          MapSet(cachedRolePermissions, role,
                 computePermissions(RoleBasedPermissions, cachedRoleHierarchy, role, {}))
  /\ idx' = idx + 1
  /\ UNCHANGED <<RoleHierarchy, RoleBasedPermissions, context, cachedRoleHierarchy,
                 pc, stack, visited, expanded, op, ret>>

\* the constructor returns
Built ==
  /\ pc = "permissions"
  /\ idx > Len(RoleBasedPermissions)
  /\ pc' = "built"
  /\ UNCHANGED <<RoleHierarchy, RoleBasedPermissions, context, cachedRoleHierarchy,
                 cachedRolePermissions, idx, stack, visited, expanded, op, ret>>

NextBuild ==
  \/ CallTopLevel
  \/ Expand
  \/ CycleBreak
  \/ ReturnToCaller
  \/ CacheHierarchy
  \/ HierarchyDone
  \/ CachePermissions
  \/ Built

SpecBuild == InitBuild /\ [][NextBuild]_vars

\* the constructor is one synchronous call: it runs until it returns
SpecBuildFair == SpecBuild /\ WF_vars(NextBuild)

-----------------------------------------------------------------------------
(* The constructor as one call: the two forEach loops over Object.keys *)

RECURSIVE buildRoleHierarchy(_, _, _)
buildRoleHierarchy(H, i, cache) ==
  IF i > Len(H)
  THEN cache
  ELSE buildRoleHierarchy(H, i + 1,
         MapSet(cache, Keys(H)[i], computeRoleHierarchy(H, Keys(H)[i], {}).result))

RECURSIVE buildRolePermissions(_, _, _, _)
buildRolePermissions(P, hierarchyCache, i, cache) ==
  IF i > Len(P)
  THEN cache
  ELSE buildRolePermissions(P, hierarchyCache, i + 1,
         MapSet(cache, Keys(P)[i], computePermissions(P, hierarchyCache, Keys(P)[i], {})))

\* The step-by-step constructor and the one-call constructor build the same caches
ConstructorAgrees ==
  pc = "built" =>
    /\ cachedRoleHierarchy = buildRoleHierarchy(RoleHierarchy, 1, EmptyMap)
    /\ cachedRolePermissions =
         buildRolePermissions(RoleBasedPermissions, cachedRoleHierarchy, 1, EmptyMap)

-----------------------------------------------------------------------------
(* The queries *)

\* the value of roles[0] of an empty list, and of a reduce that never iterates
Undefined == "undefined"

\* this.cachedRolePermissions.get(role)?.has(permission)
RoleGrants(role, permission) ==
  /\ role \in DOMAIN cachedRolePermissions
  /\ permission \in cachedRolePermissions[role]

\* roles.some((role) => ...), left to right
RECURSIVE hasPermissionThroughRole(_, _, _)
hasPermissionThroughRole(roles, k, permission) ==
  IF k > Len(roles)
  THEN FALSE
  ELSE IF RoleGrants(roles[k], permission)
       THEN TRUE
       ELSE hasPermissionThroughRole(roles, k + 1, permission)

\* this.context.permissions.includes(requiredPermission)
Includes(list, x) == \E k \in 1..Len(list) : list[k] = x

\* Mutant: the explicit grants are not looked at
hasPermissionRolesOnly(requiredPermission) ==
  hasPermissionThroughRole(context.roles, 1, requiredPermission)

hasPermission(requiredPermission) ==
  IF Includes(context.permissions, requiredPermission)
  THEN TRUE
  ELSE hasPermissionThroughRole(context.roles, 1, requiredPermission)

\* Mutant: every stops at the first element
RECURSIVE hasPermissionsFirstOnly(_, _)
hasPermissionsFirstOnly(requiredPermissions, k) ==
  IF k > Len(requiredPermissions)
  THEN TRUE
  ELSE hasPermission(requiredPermissions[k])

\* requiredPermissions.every((permission) => this.hasPermission(permission))
RECURSIVE hasPermissions(_, _)
hasPermissions(requiredPermissions, k) ==
  IF k > Len(requiredPermissions)
  THEN TRUE
  ELSE IF ~hasPermission(requiredPermissions[k])
       THEN FALSE
       ELSE hasPermissions(requiredPermissions, k + 1)

\* requiredPermissions.some((permission) => this.hasPermission(permission))
RECURSIVE hasAnyPermission(_, _)
hasAnyPermission(requiredPermissions, k) ==
  IF k > Len(requiredPermissions)
  THEN FALSE
  ELSE IF hasPermission(requiredPermissions[k])
       THEN TRUE
       ELSE hasAnyPermission(requiredPermissions, k + 1)

\* this.cachedRoleHierarchy.get(role)?.has(requiredRole)
ClosureHas(role, requiredRole) ==
  /\ role \in DOMAIN cachedRoleHierarchy
  /\ requiredRole \in cachedRoleHierarchy[role]

\* Mutant: a role directly held is not matched
RECURSIVE hasRoleInheritedOnly(_, _)
hasRoleInheritedOnly(requiredRole, k) ==
  IF k > Len(context.roles)
  THEN FALSE
  ELSE IF ClosureHas(context.roles[k], requiredRole)
       THEN TRUE
       ELSE hasRoleInheritedOnly(requiredRole, k + 1)

\* this.context.roles.some((role) => hierarchySet?.has(requiredRole) || role === requiredRole)
RECURSIVE hasRole(_, _)
hasRole(requiredRole, k) ==
  IF k > Len(context.roles)
  THEN FALSE
  ELSE IF ClosureHas(context.roles[k], requiredRole) \/ context.roles[k] = requiredRole
       THEN TRUE
       ELSE hasRole(requiredRole, k + 1)

\* Mutant: the champion is replaced only by a role that contains it
RECURSIVE getMaxRoleKeepChampion(_, _)
getMaxRoleKeepChampion(k, maxRole) ==
  IF k > Len(context.roles)
  THEN maxRole
  ELSE getMaxRoleKeepChampion(k + 1,
         IF ClosureHas(context.roles[k], maxRole) THEN context.roles[k] ELSE maxRole)

\* this.context.roles.reduce((maxRole, currentRole) => ..., this.context.roles[0]):
\* with an initial value the callback runs for every element, the first included
RECURSIVE getMaxRole(_, _)
getMaxRole(k, maxRole) ==
  IF k > Len(context.roles)
  THEN maxRole
  ELSE getMaxRole(k + 1,
         IF ClosureHas(maxRole, context.roles[k]) THEN maxRole ELSE context.roles[k])

\* this.context.roles[0]
FirstRole == IF Len(context.roles) = 0 THEN Undefined ELSE context.roles[1]

(* Inputs of the query specification *)

TriangleHierarchy ==
  << [key |-> "A", val |-> <<"B", "C">>], [key |-> "B", val |-> <<"C">>] >>

ChainHierarchy == << [key |-> "B", val |-> <<"C">>] >>

GrantsToBOnly == << [key |-> "B", val |-> <<"product:update">>] >>

GrantsToAll ==
  << [key |-> "A", val |-> <<"product:delete">>],
     [key |-> "B", val |-> <<"product:update", "product:read">>],
     [key |-> "C", val |-> <<"product:read">>] >>

QueryConfigs ==
  { Shipped,
    [hierarchy |-> TriangleHierarchy, permissions |-> GrantsToBOnly],
    [hierarchy |-> ChainHierarchy, permissions |-> GrantsToAll] }

HeldRoleChoices(H) ==
  IF H = ShippedRoleHierarchy
  THEN {"manager", "premium_user", "editor", "sales_manager", "guest"}
  ELSE GenRoles

RoleQueries(H) ==
  IF H = ShippedRoleHierarchy
  THEN {"manager", "editor", "sales_manager", "user", "proof_reader", "guest"}
  ELSE GenRoles

ExplicitChoices == {"custom:export", "product:read"}

PermissionQueries == {"product:read", "custom:export"}

NoOp == [name |-> "none", arg |-> "", list |-> << >>]

NoRet == [bool |-> FALSE, role |-> ""]

Init ==
  /\ \E cfg \in QueryConfigs :
       /\ RoleHierarchy = cfg.hierarchy
       /\ RoleBasedPermissions = cfg.permissions
       /\ context \in [roles : SeqsUpTo(HeldRoleChoices(cfg.hierarchy), MaxHeldRoles),
                       permissions : SeqsUpTo(ExplicitChoices, MaxExplicit)]
  /\ cachedRoleHierarchy = buildRoleHierarchy(RoleHierarchy, 1, EmptyMap)
  /\ cachedRolePermissions =
       buildRolePermissions(RoleBasedPermissions, cachedRoleHierarchy, 1, EmptyMap)
  /\ pc = "built"
  /\ idx = Len(RoleBasedPermissions) + 1
  /\ stack = << >>
  /\ visited = {}
  /\ expanded = << >>
  /\ op = NoOp
  /\ ret = NoRet

HasPermission ==
  /\ pc = "built"
  /\ \E p \in PermissionQueries :
       /\ op' = [name |-> "hasPermission", arg |-> p, list |-> << >>]
       /\ ret' = [bool |-> hasPermission(p), role |-> ""]
  /\ UNCHANGED <<RoleHierarchy, RoleBasedPermissions, context, buildVars>>

HasPermissions ==
  /\ pc = "built"
  /\ \E l \in SeqsUpTo(PermissionQueries, MaxList) :
       /\ op' = [name |-> "hasPermissions", arg |-> "", list |-> l]
       /\ ret' = [bool |-> hasPermissions(l, 1), role |-> ""]
  /\ UNCHANGED <<RoleHierarchy, RoleBasedPermissions, context, buildVars>>

HasAnyPermission ==
  /\ pc = "built"
  /\ \E l \in SeqsUpTo(PermissionQueries, MaxList) :
       /\ op' = [name |-> "hasAnyPermission", arg |-> "", list |-> l]
       /\ ret' = [bool |-> hasAnyPermission(l, 1), role |-> ""]
  /\ UNCHANGED <<RoleHierarchy, RoleBasedPermissions, context, buildVars>>

HasRole ==
  /\ pc = "built"
  /\ \E r \in RoleQueries(RoleHierarchy) :
       /\ op' = [name |-> "hasRole", arg |-> r, list |-> << >>]
       /\ ret' = [bool |-> hasRole(r, 1), role |-> ""]
  /\ UNCHANGED <<RoleHierarchy, RoleBasedPermissions, context, buildVars>>

GetMaxRole ==
  /\ pc = "built"
  /\ op' = [name |-> "getMaxRole", arg |-> "", list |-> << >>]
  /\ ret' = [bool |-> FALSE, role |-> getMaxRole(1, FirstRole)]
  /\ UNCHANGED <<RoleHierarchy, RoleBasedPermissions, context, buildVars>>

Next ==
  \/ HasPermission
  \/ HasPermissions
  \/ HasAnyPermission
  \/ HasRole
  \/ GetMaxRole

Spec == Init /\ [][Next]_vars

-----------------------------------------------------------------------------
(* Roles reachable by one or more parent edges, as a least fixpoint *)

Parents(H, S) == UNION {Range(InheritedRoles(H, r)) : r \in S}

RECURSIVE ReachFrom(_, _)
ReachFrom(H, S) ==
  LET next == S \cup Parents(H, S)
  IN IF next = S THEN S ELSE ReachFrom(H, next)

Reachable(H, role) == ReachFrom(H, Parents(H, {role}))

-----------------------------------------------------------------------------
(* Claims about the constructor (SpecBuild) *)

DirectGrants(P, role) == IF HasKey(P, role) THEN Range(Get(P, role)) ELSE {}

\* C7: the closure cached for every key R of RoleHierarchy is exactly the set
\* of roles reachable from R by one or more parent edges; sharing the visited
\* set across the recursion loses no role reached through a sibling branch.
C7_ClosureIsReachableSet ==
  /\ \A R \in DOMAIN cachedRoleHierarchy :
        cachedRoleHierarchy[R] = Reachable(RoleHierarchy, R)
  /\ pc = "built" => DOMAIN cachedRoleHierarchy = Range(Keys(RoleHierarchy))

\* C7 witness: built, and some role has two parents p before q where q's
\* branch leads to a role that p's branch already visited (or to p itself)
C7_Witness ==
  /\ pc = "built"
  /\ \E R \in DOMAIN cachedRoleHierarchy :
       \E i, j \in 1..Len(InheritedRoles(RoleHierarchy, R)) :
         LET p == InheritedRoles(RoleHierarchy, R)[i]
             q == InheritedRoles(RoleHierarchy, R)[j]
         IN /\ i < j
            /\ p # q
            /\ Reachable(RoleHierarchy, q) \cap
                 (Reachable(RoleHierarchy, p) \cup {p}) # {}
            /\ Reachable(RoleHierarchy, q) \cup Reachable(RoleHierarchy, p)
                 \subseteq cachedRoleHierarchy[R]

\* C8: the effective permissions cached for every key R of RoleBasedPermissions
\* are exactly the direct grants of R and of every role in the cached closure
\* of R; a closure member without an entry contributes nothing.
C8_EffectivePermissions ==
  /\ \A R \in DOMAIN cachedRolePermissions :
        cachedRolePermissions[R] =
          {perm \in UNION {DirectGrants(RoleBasedPermissions, r) :
                             r \in Range(Keys(RoleBasedPermissions))} :
             \/ perm \in DirectGrants(RoleBasedPermissions, R)
             \/ /\ R \in DOMAIN cachedRoleHierarchy
                /\ \E r \in cachedRoleHierarchy[R] :
                     perm \in DirectGrants(RoleBasedPermissions, r)}
  /\ pc = "built" => DOMAIN cachedRolePermissions = Range(Keys(RoleBasedPermissions))

\* C8 witness: built, and a role holds a permission it is not granted directly
\* while a member of its closure has no entry in RoleBasedPermissions
C8_Witness ==
  /\ pc = "built"
  /\ \E R \in DOMAIN cachedRolePermissions :
       /\ R \in DOMAIN cachedRoleHierarchy
       /\ cachedRolePermissions[R] \ DirectGrants(RoleBasedPermissions, R) # {}
       /\ \E r \in cachedRoleHierarchy[R] : ~HasKey(RoleBasedPermissions, r)

\* R lies on a cycle through at least one other role
OnLongerCycle(H, R) ==
  \E S \in Reachable(H, R) : S # R /\ R \in Reachable(H, S)

\* R lists itself as a parent
HasSelfEdge(H, R) == R \in Range(InheritedRoles(H, R))

\* C9 as stated: R is in its own cached closure only when it lies on a cycle
\* through another role; a self-edge alone does not put R into closure(R).
C9_SelfEdgeAbsorbed ==
  \A R \in DOMAIN cachedRoleHierarchy :
    R \in cachedRoleHierarchy[R] => OnLongerCycle(RoleHierarchy, R)

\* C9 amended: R is in its own cached closure exactly when R lists itself as a
\* parent or lies on a cycle through another role; the guard stops the
\* recursion at a self-edge, after R was added to the result.
C9_SelfMembership ==
  \A R \in DOMAIN cachedRoleHierarchy :
    R \in cachedRoleHierarchy[R] <=>
      (HasSelfEdge(RoleHierarchy, R) \/ OnLongerCycle(RoleHierarchy, R))

\* C9 witness: built, with a role whose only way back to itself is a self-edge
C9_Witness ==
  /\ pc = "built"
  /\ \E R \in DOMAIN cachedRoleHierarchy :
       /\ HasSelfEdge(RoleHierarchy, R)
       /\ ~OnLongerCycle(RoleHierarchy, R)
       /\ R \in cachedRoleHierarchy[R]

\* no role is added to visited twice within one top-level call
ExpandedOnce ==
  \A i, j \in 1..Len(expanded) : i # j => expanded[i] # expanded[j]

\* C10: the constructor terminates for every hierarchy, cycles included: within
\* one top-level computeRoleHierarchy call every role is expanded at most once,
\* and the build reaches the built state.
C10_ConstructorTerminates == []ExpandedOnce /\ <>(pc = "built")

\* C10 witness: built from a hierarchy with the cycle A -> B -> C -> A
C10_Witness ==
  /\ pc = "built"
  /\ "B" \in Range(InheritedRoles(RoleHierarchy, "A"))
  /\ "C" \in Range(InheritedRoles(RoleHierarchy, "B"))
  /\ "A" \in Range(InheritedRoles(RoleHierarchy, "C"))
  /\ cachedRoleHierarchy["A"] = {"A", "B", "C"}

-----------------------------------------------------------------------------
(* Claims about the queries (Spec) *)

HeldRoles == Range(context.roles)

\* the cached closure of a role, empty when the cache has no entry for it
CachedClosure(role) ==
  IF role \in DOMAIN cachedRoleHierarchy THEN cachedRoleHierarchy[role] ELSE {}

\* C1: hasPermission(p) is true exactly when p is an explicit permission or
\* some held role has a cached effective-permission set containing p.
C1_HasPermission ==
  op.name = "hasPermission" =>
    ret.bool = (\/ op.arg \in Range(context.permissions)
                \/ \E r \in HeldRoles :
                     /\ r \in DOMAIN cachedRolePermissions
                     /\ op.arg \in cachedRolePermissions[r])

\* C1 witness: an explicit grant answers true although no held role is a key
\* of RoleHierarchy or of RoleBasedPermissions
C1_Witness ==
  /\ op.name = "hasPermission"
  /\ op.arg = "custom:export"
  /\ op.arg \in Range(context.permissions)
  /\ HeldRoles # {}
  /\ \A r \in HeldRoles :
       ~HasKey(RoleHierarchy, r) /\ ~HasKey(RoleBasedPermissions, r)
  /\ ret.bool = TRUE

\* C2 as stated: getMaxRole() on a non-empty list returns a held role that is
\* not in the cached closure of any other held role.
C2_MaxRoleNotSubordinate ==
  (op.name = "getMaxRole" /\ context.roles # << >>) =>
    /\ ret.role \in HeldRoles
    /\ \A r \in HeldRoles : r # ret.role => ret.role \notin CachedClosure(r)

Unrelated(a, b) ==
  a # b /\ b \notin CachedClosure(a) /\ a \notin CachedClosure(b)

\* C3 as stated: with exactly two unrelated held roles getMaxRole() returns
\* the one that comes first in the list.
C3_FirstOfUnrelated ==
  (/\ op.name = "getMaxRole"
   /\ Len(context.roles) = 2
   /\ Unrelated(context.roles[1], context.roles[2]))
    => ret.role = context.roles[1]

\* C3 amended: with exactly two unrelated held roles getMaxRole() returns the
\* one that comes last in the list.
C3_LastOfUnrelated ==
  (/\ op.name = "getMaxRole"
   /\ Len(context.roles) = 2
   /\ Unrelated(context.roles[1], context.roles[2]))
    => ret.role = context.roles[2]

\* C3 witness: sales_manager then editor of the shipped tables, editor returned
C3_Witness ==
  /\ op.name = "getMaxRole"
  /\ context.roles = <<"sales_manager", "editor">>
  /\ Unrelated("sales_manager", "editor")
  /\ ret.role = "editor"

\* C4 as stated: a principal holding just a role R that is a key of
\* RoleHierarchy and not of RoleBasedPermissions, with no explicit permission,
\* has every permission directly granted to a role in closure(R).
C4_MissingGrantsEntryInherits ==
  (/\ op.name = "hasPermission"
   /\ Len(context.roles) = 1
   /\ context.permissions = << >>
   /\ HasKey(RoleHierarchy, context.roles[1])
   /\ ~HasKey(RoleBasedPermissions, context.roles[1])
   /\ \E r \in CachedClosure(context.roles[1]) :
        op.arg \in DirectGrants(RoleBasedPermissions, r))
    => ret.bool = TRUE

\* C5: hasRole(r) is true exactly when r is held or r is in the cached closure
\* of a held role; a held role without a cached closure contributes nothing.
C5_HasRole ==
  op.name = "hasRole" =>
    ret.bool = (\/ op.arg \in HeldRoles
                \/ \E r \in HeldRoles :
                     /\ r \in DOMAIN cachedRoleHierarchy
                     /\ op.arg \in cachedRoleHierarchy[r])

\* C5 witness: a role held directly, by a principal one of whose roles has no
\* cached closure, and not inherited from any held role
C5_Witness ==
  /\ op.name = "hasRole"
  /\ op.arg \in HeldRoles
  /\ \E r \in HeldRoles : r \notin DOMAIN cachedRoleHierarchy
  /\ \A r \in HeldRoles : op.arg \notin CachedClosure(r)
  /\ ret.bool = TRUE

\* C6: hasPermissions(list) is the conjunction and hasAnyPermission(list) the
\* disjunction of hasPermission over the list; on the empty list the first is
\* true and the second false.
C6_AllAndAny ==
  /\ op.name = "hasPermissions" =>
       /\ ret.bool = (\A k \in 1..Len(op.list) : hasPermission(op.list[k]))
       /\ op.list = << >> => ret.bool = TRUE
  /\ op.name = "hasAnyPermission" =>
       /\ ret.bool = (\E k \in 1..Len(op.list) : hasPermission(op.list[k]))
       /\ op.list = << >> => ret.bool = FALSE

\* C6 witness: hasPermissions answers false on a list whose first element is
\* permitted and whose second is not
C6_Witness ==
  /\ op.name = "hasPermissions"
  /\ Len(op.list) = 2
  /\ hasPermission(op.list[1])
  /\ ~hasPermission(op.list[2])
  /\ ret.bool = FALSE

=============================================================================
